---- MODULE Spec2Model ----
(***************************************************************************)
(* A model of system_monitor.py: five Textual widgets (CPU, memory, disk,  *)
(* network, processes), each holding the values of its last psutil         *)
(* reading, and SystemMonitorApp.update_data, the timer callback that      *)
(* refreshes them once a second.                                           *)
(*                                                                         *)
(* Units.  A percentage or a temperature is an integer count of tenths or  *)
(* hundredths (123 tenths = 12.3).  A quotient bytes / divisor is the pair *)
(* <<bytes, divisor>>.  An optional attribute is None (<<>>) or <<v>>.     *)
(* A rendered text is the sequence of its lines; a line is <<label, n>>    *)
(* with n the number the line shows, in tenths where it shows decimals.    *)
(***************************************************************************)
EXTENDS Integers, Sequences, FiniteSets, TLC

VARIABLES
    pc,         \* position of update_data: "idle" (not running), the widget
                \* it is about to update, "ret" (about to return), or
                \* "crashed" (an exception left it)
    err,        \* None, or <<w>>: the update of widget w raised in this pass
    fired,      \* timer ticks elapsed since on_mount
    started,    \* calls of update_data begun
    finished,   \* calls of update_data returned
    dropped,    \* ticks that elapsed while update_data ran and were skipped
    lastFailed, \* the previous call of update_data ended in its except clause
    calls,      \* widgets whose update method this pass has called, in order
    held,       \* the five widgets' attributes when the running call (of
                \* update_data, or of one update method alone) began
    cpu,        \* CPUWidget: usage, temperature, fan_speed
    mem,        \* MemoryWidget: usage, used, total
    disk,       \* DiskWidget: usage, used, total
    net,        \* NetworkWidget: sent, recv
    procs,      \* ProcessesWidget.processes
    src,        \* per widget, whether an update has written its attributes,
                \* the psutil reading the last such update was given and the
                \* call of update_data (its number) that made it
    ptable      \* the host's processes as psutil.process_iter lists them

vars == <<pc, err, fired, started, finished, dropped, lastFailed, calls, held,
          cpu, mem, disk, net, procs, src, ptable>>

----------------------------------------------------------------------------
(* Bounds of the model *)

\* timer ticks modelled
MaxTicks == 4

\* longest process enumeration modelled
MaxProcs == 6

----------------------------------------------------------------------------
(* Python values *)

None == <<>>

Some(v) == <<v>>

\* bool(x) of an optional number: None and 0 are false
Truthy(x) == x # None /\ x[1] # 0

\* an exception-free result, or the exception an expression raised
Ok(v) == [exc |-> "", v |-> v]

Raise(e) == [exc |-> e, v |-> None]

----------------------------------------------------------------------------
(* CPUWidget *)

\* class attributes: usage = reactive(0), temperature = reactive(None),
\* fan_speed = reactive(None)
CPUDefaults == [usage |-> 0, temperature |-> None, fan_speed |-> None]

\* psutil.sensors_temperatures()['coretemp'][0].current on the reading
\* t = [exc, has_coretemp, entries]: exc is the exception of the call itself
\* (AttributeError where psutil has no sensors_temperatures), entries the
\* 'coretemp' list, in hundredths of a degree
SensorsTemperature(t) ==
    IF t.exc # "" THEN Raise(t.exc)
    ELSE IF ~t.has_coretemp THEN Raise("KeyError")
    ELSE IF Len(t.entries) = 0 THEN Raise("IndexError")
    ELSE Ok(Some(t.entries[1]))

\* fans = psutil.sensors_fans() and the branch on it, on the reading
\* f = [exc, groups]: groups lists each fan group's entries (RPM);
\* an empty dict gives None, else next(iter(fans.values()))[0].current
SensorsFans(f) ==
    IF f.exc # "" THEN Raise(f.exc)
    ELSE IF Len(f.groups) = 0 THEN Ok(None)
    ELSE IF Len(f.groups[1]) = 0 THEN Raise("IndexError")
    ELSE Ok(Some(f.groups[1][1]))

\* the bare `except:` of update_cpu catches every exception
BareExcept(exc) == TRUE

\* a variant whose handler is `pass`: the attribute keeps its value
TemperatureKeepOld(old, r) ==
    IF r.exc = "" THEN r.v ELSE old

\* try: self.temperature = <read>  except: self.temperature = None
TemperatureAfter(old, r) ==
    IF r.exc = "" THEN r.v ELSE None

\* a variant without the else branch: no fans leaves the attribute alone
FanSpeedNoElse(old, r) ==
    IF r.exc # "" THEN None
    ELSE IF r.v = None THEN old
    ELSE r.v

\* try: fans = ...; if fans: self.fan_speed = ... else: self.fan_speed = None
\* except: self.fan_speed = None
FanSpeedAfter(old, r) ==
    IF r.exc # "" THEN None ELSE r.v

\* CPUWidget.update_cpu on the reading in = [usage, temp, fans]: the widget
\* after the call and the exception that left it ("" when it returned)
update_cpu(self, in) ==
    IF in.usage.exc # "" THEN [self |-> self, exc |-> in.usage.exc]
    ELSE
      LET u  == [self EXCEPT !.usage = in.usage.v]
          t  == SensorsTemperature(in.temp)
      IN IF t.exc # "" /\ ~BareExcept(t.exc) THEN [self |-> u, exc |-> t.exc]
         ELSE
           LET ut == [u EXCEPT !.temperature = TemperatureAfter(self.temperature, t)]
               f  == SensorsFans(in.fans)
           IN IF f.exc # "" /\ ~BareExcept(f.exc) THEN [self |-> ut, exc |-> f.exc]
              ELSE [self |-> [ut EXCEPT !.fan_speed = FanSpeedAfter(self.fan_speed, f)],
                    exc  |-> ""]

\* Python's fixed-point formatting to one digit fewer than h carries
\* (f"{x:.1f}" of hundredths, f"{x:.0f}" of tenths): round half to even
\* (the readings modelled are exact in binary or not halves)
Format1(h) ==
    LET q == h \div 10
        r == h % 10
    IN IF r > 5 \/ (r = 5 /\ q % 2 = 1) THEN q + 1 ELSE q

\* a variant that prints absent attributes as a zero placeholder
CPURenderPlaceholder(self) ==
    <<  <<"CPU Usage", self.usage>>,
        <<"Temperature", IF self.temperature = None THEN 0 ELSE Format1(self.temperature[1])>>,
        <<"Fan Speed", IF self.fan_speed = None THEN 0 ELSE self.fan_speed[1]>> >>

\* a variant that formats the usage with {:.0f}
CPURenderRounded(self) ==
    <<  <<"CPU Usage", 10 * Format1(self.usage)>> >>
    \o (IF Truthy(self.temperature)
          THEN << <<"Temperature", Format1(self.temperature[1])>> >> ELSE <<>>)
    \o (IF Truthy(self.fan_speed)
          THEN << <<"Fan Speed", self.fan_speed[1]>> >> ELSE <<>>)

\* CPUWidget.render: the usage as str() prints it, then a line per truthy
\* optional attribute
CPURender(self) ==
    <<  <<"CPU Usage", self.usage>> >>
    \o (IF Truthy(self.temperature)
          THEN << <<"Temperature", Format1(self.temperature[1])>> >> ELSE <<>>)
    \o (IF Truthy(self.fan_speed)
          THEN << <<"Fan Speed", self.fan_speed[1]>> >> ELSE <<>>)

----------------------------------------------------------------------------
(* MemoryWidget, DiskWidget, NetworkWidget *)

\* 1024 * 1024 * 1024
GiB == 1073741824

\* 1024 * 1024
MiB == 1048576

\* class attributes: usage = reactive(0), used = reactive(0), total = reactive(0)
UsageDefaults == [usage |-> 0, used |-> <<0, 1>>, total |-> <<0, 1>>]

\* class attributes: sent = reactive(0), recv = reactive(0)
NetworkDefaults == [sent |-> <<0, 1>>, recv |-> <<0, 1>>]

\* MemoryWidget.update_memory on memory = psutil.virtual_memory(): one call,
\* then the three attributes from its result
update_memory(self, memory) ==
    IF memory.exc # "" THEN [self |-> self, exc |-> memory.exc]
    ELSE [self |-> [usage |-> memory.percent,
                    used  |-> <<memory.used, GiB>>,
                    total |-> <<memory.total, GiB>>],
          exc  |-> ""]

\* DiskWidget.update_disk on disk = psutil.disk_usage('/')
update_disk(self, du) ==
    IF du.exc # "" THEN [self |-> self, exc |-> du.exc]
    ELSE [self |-> [usage |-> du.percent,
                    used  |-> <<du.used, GiB>>,
                    total |-> <<du.total, GiB>>],
          exc  |-> ""]

\* NetworkWidget.update_network on net_io = psutil.net_io_counters()
update_network(self, net_io) ==
    IF net_io.exc # "" THEN [self |-> self, exc |-> net_io.exc]
    ELSE [self |-> [sent |-> <<net_io.bytes_sent, MiB>>,
                    recv |-> <<net_io.bytes_recv, MiB>>],
          exc  |-> ""]

----------------------------------------------------------------------------
(* ProcessesWidget *)

\* processes[:5]
TopN == 5

\* except (psutil.NoSuchProcess, psutil.AccessDenied, psutil.ZombieProcess)
ProcessExcept(exc) == exc \in {"NoSuchProcess", "AccessDenied", "ZombieProcess"}

\* the loop over psutil.process_iter: an enumerated process p = [pid, name,
\* cpu, mem, exc] whose field reads raise p.exc is skipped when the except
\* clause names p.exc, and ends the loop with that exception otherwise
RECURSIVE Collect(_, _)
Collect(enum, acc) ==
    IF enum = <<>> THEN [exc |-> "", list |-> acc]
    ELSE LET p == Head(enum)
         IN IF p.exc = ""
              THEN Collect(Tail(enum), Append(acc, <<p.pid, p.name, p.cpu, p.mem>>))
            ELSE IF ProcessExcept(p.exc) THEN Collect(Tail(enum), acc)
            ELSE [exc |-> p.exc, list |-> acc]

\* a variant that puts an entry before the entries of equal CPU percent
InsertBeforeEqual(sorted, x) ==
    LET k == Cardinality({i \in 1..Len(sorted) : sorted[i][3] > x[3]})
    IN SubSeq(sorted, 1, k) \o <<x>> \o SubSeq(sorted, k + 1, Len(sorted))

\* one step of the stable descending sort on x[2] (0-based), the CPU percent:
\* x goes after every entry already placed whose key is not smaller
Insert(sorted, x) ==
    LET k == Cardinality({i \in 1..Len(sorted) : sorted[i][3] >= x[3]})
    IN SubSeq(sorted, 1, k) \o <<x>> \o SubSeq(sorted, k + 1, Len(sorted))

\* processes.sort(key=lambda x: x[2], reverse=True): list.sort is stable, and
\* reverse=True keeps the original order of entries with equal keys
RECURSIVE SortByCpu(_)
SortByCpu(list) ==
    IF list = <<>> THEN <<>>
    ELSE Insert(SortByCpu(SubSeq(list, 1, Len(list) - 1)), list[Len(list)])

\* processes[:5]
Slice(list) == SubSeq(list, 1, IF Len(list) < TopN THEN Len(list) ELSE TopN)

\* ProcessesWidget.update_processes on the enumeration enum
update_processes(self, enum) ==
    LET c == Collect(enum, <<>>)
    IN IF c.exc # "" THEN [self |-> self, exc |-> c.exc]
       ELSE [self |-> Slice(SortByCpu(c.list)), exc |-> ""]

----------------------------------------------------------------------------
(* The host: what the psutil calls can report *)

\* cpu_percent() readings, in tenths of a percent
Usages == {Ok(0), Ok(123), Ok(125), Ok(1000)}

\* sensors_temperatures() readings, in hundredths of a degree
Temperatures ==
    { [exc |-> "AttributeError", has_coretemp |-> FALSE, entries |-> <<>>],
      [exc |-> "", has_coretemp |-> FALSE, entries |-> <<>>],
      [exc |-> "", has_coretemp |-> TRUE,  entries |-> <<>>],
      [exc |-> "", has_coretemp |-> TRUE,  entries |-> <<0>>],
      [exc |-> "", has_coretemp |-> TRUE,  entries |-> <<4537, 5100>>] }

\* sensors_fans() readings, in RPM
Fans ==
    { [exc |-> "AttributeError", groups |-> <<>>],
      [exc |-> "", groups |-> <<>>],
      [exc |-> "", groups |-> << <<>> >>],
      [exc |-> "", groups |-> << <<0>> >>],
      [exc |-> "", groups |-> << <<3000>>, <<1200>> >>] }

CpuReadings == [usage : Usages, temp : Temperatures, fans : Fans]

\* the readings the refresh cycle is explored with
DriverCpuReadings ==
    { [usage |-> Raise("OSError"), temp |-> t, fans |-> f] :
          t \in {x \in Temperatures : x.exc # ""}, f \in {x \in Fans : x.exc # ""} }
    \cup
    { r \in CpuReadings :
        /\ r.usage = Ok(123)
        /\ \/ r.temp.exc # "" /\ Len(r.fans.groups) = 2
           \/ Len(r.temp.entries) = 2 /\ r.fans.exc # ""
           \/ Len(r.temp.entries) = 2 /\ Len(r.fans.groups) = 2 }

\* virtual_memory() readings: percent in tenths, bytes
MemoryReadings ==
    { [exc |-> "OSError", percent |-> 0, used |-> 0, total |-> 0],
      [exc |-> "", percent |-> 500, used |-> 536870912, total |-> GiB],
      [exc |-> "", percent |-> 532, used |-> 571230650, total |-> GiB] }

\* disk_usage('/') readings
DiskReadings ==
    { [exc |-> "OSError", percent |-> 0, used |-> 0, total |-> 0],
      [exc |-> "", percent |-> 250, used |-> 536870912, total |-> 2147483647] }

\* net_io_counters() readings
NetReadings ==
    { [exc |-> "OSError", bytes_sent |-> 0, bytes_recv |-> 0],
      [exc |-> "", bytes_sent |-> 10485760, bytes_recv |-> 20971520] }

\* what reading one process can give: its CPU percent, or the exception its
\* field reads raise
ProcessReads ==
    { [cpu |-> c, exc |-> ""] : c \in {0, 40} }
    \cup { [cpu |-> 0, exc |-> e] : e \in {"NoSuchProcess", "AccessDenied", "ZombieProcess"} }

\* an enumeration: the i-th process has pid 100 + i
Table(f) ==
    [i \in DOMAIN f |->
        [pid |-> 100 + i, name |-> "proc", cpu |-> f[i].cpu, mem |-> 10, exc |-> f[i].exc]]

\* the enumerations the refresh cycle is explored with; in the second the
\* read of a process raises an exception update_processes does not catch
DriverTables ==
    { Table(<< [cpu |-> 15, exc |-> ""], [cpu |-> 0, exc |-> "NoSuchProcess"],
               [cpu |-> 40, exc |-> ""] >>),
      Table(<< [cpu |-> 15, exc |-> ""], [cpu |-> 0, exc |-> "OSError"] >>) }

----------------------------------------------------------------------------
(* SystemMonitorApp *)

\* a variant that updates the processes before the network
OrderSwapped == <<"cpu", "mem", "disk", "procs", "net">>

\* the widgets in the order update_data updates them
Order == <<"cpu", "mem", "disk", "net", "procs">>

\* the update after that of widget w, "ret" after the last
After(w) ==
    LET i == CHOOSE j \in 1..Len(Order) : Order[j] = w
    IN IF i = Len(Order) THEN "ret" ELSE Order[i + 1]

Widgets == {Order[i] : i \in 1..Len(Order)}

Panels == [cpu |-> cpu, mem |-> mem, disk |-> disk, net |-> net, procs |-> procs]

NoReading == [set |-> FALSE, r |-> <<>>, at |-> 0]

Init ==
    /\ pc = "idle"
    /\ err = None
    /\ fired = 0
    /\ started = 0
    /\ finished = 0
    /\ dropped = 0
    /\ lastFailed = FALSE
    /\ calls = <<>>
    /\ cpu = CPUDefaults
    /\ mem = UsageDefaults
    /\ disk = UsageDefaults
    /\ net = NetworkDefaults
    /\ procs = <<>>
    /\ held = [cpu |-> CPUDefaults, mem |-> UsageDefaults, disk |-> UsageDefaults,
               net |-> NetworkDefaults, procs |-> <<>>]
    /\ src = [w \in Widgets |-> NoReading]
    /\ ptable \in DriverTables

\* a variant that catches only psutil's own errors
ExceptPsutilError(exc) == exc \in {"NoSuchProcess", "AccessDenied", "ZombieProcess"}

\* `except Exception as e` of update_data: every exception a psutil call
\* raises is an Exception
UpdateDataExcept(exc) == TRUE

\* a variant that starts a second pass inside the running one
TickWhileBusyReentrant ==
    /\ pc \in Widgets
    /\ fired < MaxTicks
    /\ fired' = fired + 1
    /\ started' = started + 1
    /\ pc' = "cpu"
    /\ calls' = <<>>
    /\ UNCHANGED <<err, finished, dropped, lastFailed, held, cpu, mem, disk, net, procs, src, ptable>>

\* set_interval(1, self.update_data), a second elapsing while update_data
\* runs: the callback is synchronous, so the event loop cannot call it again
\* before it returns, and the timer skips the tick it missed
TickWhileBusy ==
    /\ pc \in Widgets \cup {"ret"}
    /\ fired < MaxTicks
    /\ fired' = fired + 1
    /\ dropped' = dropped + 1
    /\ UNCHANGED <<pc, err, started, finished, lastFailed, calls, held,
                   cpu, mem, disk, net, procs, src, ptable>>

\* set_interval(1, self.update_data), a second elapsing while the app is
\* idle: update_data is called
Tick ==
    /\ pc = "idle"
    /\ fired < MaxTicks
    /\ fired' = fired + 1
    /\ started' = started + 1
    /\ pc' = Order[1]
    /\ err' = None
    /\ calls' = <<>>
    /\ held' = Panels
    /\ UNCHANGED <<finished, dropped, lastFailed, cpu, mem, disk, net, procs, src, ptable>>

\* what follows the update of widget w inside the try of update_data: the
\* next update, or the except clause (print, then return), or the exception
\* leaving update_data
Called(w, exc) ==
    /\ calls' = Append(calls, w)
    /\ IF exc = "" THEN pc' = After(w) /\ err' = err
       ELSE IF UpdateDataExcept(exc) THEN pc' = "ret" /\ err' = Some(w)
       ELSE pc' = "crashed" /\ err' = Some(w)

\* the reading an update that returned was given
Written(w, exc, r) ==
    IF exc = "" THEN [src EXCEPT ![w] = [set |-> TRUE, r |-> r, at |-> started]] ELSE src

\* self.query_one(CPUWidget).update_cpu()
UpdateCpu ==
    /\ pc = "cpu"
    /\ \E in \in DriverCpuReadings :
          LET r == update_cpu(cpu, in)
          IN cpu' = r.self /\ src' = Written("cpu", r.exc, in) /\ Called("cpu", r.exc)
    /\ UNCHANGED <<fired, started, finished, dropped, lastFailed, held, mem, disk, net, procs, ptable>>

\* self.query_one(MemoryWidget).update_memory()
UpdateMemory ==
    /\ pc = "mem"
    /\ \E in \in MemoryReadings :
          LET r == update_memory(mem, in)
          IN mem' = r.self /\ src' = Written("mem", r.exc, in) /\ Called("mem", r.exc)
    /\ UNCHANGED <<fired, started, finished, dropped, lastFailed, held, cpu, disk, net, procs, ptable>>

\* self.query_one(DiskWidget).update_disk()
UpdateDisk ==
    /\ pc = "disk"
    /\ \E in \in DiskReadings :
          LET r == update_disk(disk, in)
          IN disk' = r.self /\ src' = Written("disk", r.exc, in) /\ Called("disk", r.exc)
    /\ UNCHANGED <<fired, started, finished, dropped, lastFailed, held, cpu, mem, net, procs, ptable>>

\* self.query_one(NetworkWidget).update_network()
UpdateNetwork ==
    /\ pc = "net"
    /\ \E in \in NetReadings :
          LET r == update_network(net, in)
          IN net' = r.self /\ src' = Written("net", r.exc, in) /\ Called("net", r.exc)
    /\ UNCHANGED <<fired, started, finished, dropped, lastFailed, held, cpu, mem, disk, procs, ptable>>

\* self.query_one(ProcessesWidget).update_processes()
UpdateProcesses ==
    /\ pc = "procs"
    /\ LET r == update_processes(procs, ptable)
       IN procs' = r.self /\ src' = Written("procs", r.exc, ptable) /\ Called("procs", r.exc)
    /\ UNCHANGED <<fired, started, finished, dropped, lastFailed, held, cpu, mem, disk, net, ptable>>

\* update_data returns, after the last update or after the except clause
Return ==
    /\ pc = "ret"
    /\ pc' = "idle"
    /\ finished' = finished + 1
    /\ lastFailed' = (err # None)
    /\ err' = None
    /\ calls' = <<>>
    /\ held' = Panels
    /\ UNCHANGED <<fired, started, dropped, cpu, mem, disk, net, procs, src, ptable>>

\* processes start, exit and change between two enumerations
HostChanges ==
    /\ \E t \in DriverTables : t # ptable /\ ptable' = t
    /\ UNCHANGED <<pc, err, fired, started, finished, dropped, lastFailed, calls, held,
                   cpu, mem, disk, net, procs, src>>

Step == UpdateCpu \/ UpdateMemory \/ UpdateDisk \/ UpdateNetwork \/ UpdateProcesses \/ Return

Next == Tick \/ TickWhileBusy \/ Step \/ HostChanges

\* the refresh cycle
Spec == Init /\ [][Next]_vars

\* the refresh cycle, each call of update_data running on to its return
FairSpec == Spec /\ WF_vars(Step)

----------------------------------------------------------------------------
(* update_cpu alone, over every sensor reading *)

CpuCall ==
    /\ pc = "idle"
    /\ \E in \in CpuReadings :
          LET r == update_cpu(cpu, in)
          IN /\ cpu' = r.self
             /\ src' = Written("cpu", r.exc, in)
             /\ err' = IF r.exc = "" THEN None ELSE Some("cpu")
             /\ held' = Panels
    /\ UNCHANGED <<pc, fired, started, finished, dropped, lastFailed, calls,
                   mem, disk, net, procs, ptable>>

SpecCpu == Init /\ [][CpuCall]_vars

----------------------------------------------------------------------------
(* update_processes alone, over every enumeration *)

InitProcesses ==
    /\ pc = "idle"
    /\ err = None
    /\ fired = 0
    /\ started = 0
    /\ finished = 0
    /\ dropped = 0
    /\ lastFailed = FALSE
    /\ calls = <<>>
    /\ cpu = CPUDefaults
    /\ mem = UsageDefaults
    /\ disk = UsageDefaults
    /\ net = NetworkDefaults
    /\ procs = <<>>
    /\ held = [cpu |-> CPUDefaults, mem |-> UsageDefaults, disk |-> UsageDefaults,
               net |-> NetworkDefaults, procs |-> <<>>]
    /\ src = [w \in Widgets |-> NoReading]
    /\ \E n \in 0..MaxProcs : \E f \in [1..n -> ProcessReads] : ptable = Table(f)

ProcessesCall ==
    /\ pc = "idle"
    /\ LET r == update_processes(procs, ptable)
       IN /\ procs' = r.self
          /\ src' = Written("procs", r.exc, ptable)
          /\ err' = IF r.exc = "" THEN None ELSE Some("procs")
    /\ UNCHANGED <<pc, fired, started, finished, dropped, lastFailed, calls, held,
                   cpu, mem, disk, net, ptable>>

\* a process exits: from now on its field reads raise NoSuchProcess
ProcessExits ==
    /\ \E i \in DOMAIN ptable :
          /\ ptable[i].exc = ""
          /\ ptable' = [ptable EXCEPT ![i].exc = "NoSuchProcess", ![i].cpu = 0]
    /\ UNCHANGED <<pc, err, fired, started, finished, dropped, lastFailed, calls, held,
                   cpu, mem, disk, net, procs, src>>

NextProcesses == ProcessesCall \/ ProcessExits

SpecProcesses == InitProcesses /\ [][NextProcesses]_vars

----------------------------------------------------------------------------
(* What each widget should hold after an update that was given reading r *)

TemperatureFails(t) == t.exc # "" \/ ~t.has_coretemp \/ Len(t.entries) = 0

FansFail(f) == f.exc # "" \/ Len(f.groups) = 0 \/ Len(f.groups[1]) = 0

SnapshotOf(w, r) ==
    CASE w = "cpu" ->
           [usage       |-> r.usage.v,
            temperature |-> IF TemperatureFails(r.temp) THEN None ELSE Some(r.temp.entries[1]),
            fan_speed   |-> IF FansFail(r.fans) THEN None ELSE Some(r.fans.groups[1][1])]
      [] w \in {"mem", "disk"} ->
           [usage |-> r.percent, used |-> <<r.used, 1073741824>>, total |-> <<r.total, 1073741824>>]
      [] w = "net" ->
           [sent |-> <<r.bytes_sent, 1048576>>, recv |-> <<r.bytes_recv, 1048576>>]

DefaultsOf(w) ==
    CASE w = "cpu" -> [usage |-> 0, temperature |-> None, fan_speed |-> None]
      [] w \in {"mem", "disk"} -> [usage |-> 0, used |-> <<0, 1>>, total |-> <<0, 1>>]
      [] w = "net" -> [sent |-> <<0, 1>>, recv |-> <<0, 1>>]

\* the enumeration positions whose reads succeed
Readable(t) == {i \in DOMAIN t : t[i].exc = ""}

\* list is the top five of the readable processes of enumeration t, by
\* descending CPU percent, equal percents in enumeration order
IsTopFive(list, t) ==
    LET R      == Readable(t)
        pos(k) == list[k][1] - 100
        In     == {pos(k) : k \in 1..Len(list)}
    IN /\ Len(list) = IF Cardinality(R) < 5 THEN Cardinality(R) ELSE 5
       /\ \A k \in 1..Len(list) :
             /\ pos(k) \in R
             /\ list[k] = <<t[pos(k)].pid, t[pos(k)].name, t[pos(k)].cpu, t[pos(k)].mem>>
       /\ \A j, k \in 1..Len(list) :
             j < k => \/ list[j][3] > list[k][3]
                      \/ list[j][3] = list[k][3] /\ pos(j) < pos(k)
       /\ \A i \in R \ In : \A k \in 1..Len(list) :
             \/ t[i].cpu < list[k][3]
             \/ t[i].cpu = list[k][3] /\ i > pos(k)

----------------------------------------------------------------------------
(* The claims *)

\* C1: when an update raises during a call of update_data, all five widgets
\* hold, as update_data returns, what they held when it was called.
C1_FailedTickKeepsPanels ==
    (pc = "ret" /\ err # None) => Panels = held

C3_NoErrorEscapes ==
    /\ pc # "crashed"
    /\ err # None => (pc = "ret" /\ calls # <<>> /\ err = Some(calls[Len(calls)]))

\* C3's case: the last of the five updates raised and the call is at its return
C3_Witness ==
    pc = "ret" /\ err = Some("procs") /\ Len(calls) = 5

\* C4: every call of update_data returns (the app goes back to idle), and a
\* call without a raising update that follows a failed call has called the
\* updates in the order CPU, memory, disk, network, processes and leaves
\* every widget with values written during that call.
C4_Recovery ==
    /\ [](pc # "idle" => <>(pc = "idle"))
    /\ []((pc = "ret" /\ err = None /\ lastFailed) =>
            /\ calls = <<"cpu", "mem", "disk", "net", "procs">>
            /\ \A w \in {"cpu", "mem", "disk", "net", "procs"} :
                  src[w].set /\ src[w].at = started
            /\ \A w \in {"cpu", "mem", "disk", "net"} :
                  Panels[w] = SnapshotOf(w, src[w].r)
            /\ IsTopFive(procs, src["procs"].r))

\* C4's case: a call in which nothing raised, after a failed call, at its return
C4_Witness ==
    pc = "ret" /\ err = None /\ lastFailed /\ Panels # held

\* C5: an absent temperature gives no temperature line and an absent fan
\* speed no fan-speed line; with the temperature absent and the fan speed
\* 3000 the text is two lines, the usage and the fan speed.
C5_AbsentOmitted ==
    LET out == CPURender(cpu)
    IN /\ cpu.temperature = None => \A i \in 1..Len(out) : out[i][1] # "Temperature"
       /\ cpu.fan_speed = None => \A i \in 1..Len(out) : out[i][1] # "Fan Speed"
       /\ (cpu.temperature = None /\ cpu.fan_speed = Some(3000)) =>
             /\ Len(out) = 2
             /\ out[1][1] = "CPU Usage"
             /\ out[2] = <<"Fan Speed", 3000>>

\* C5's case: update_cpu found no temperature and a fan at 3000 RPM
C5_Witness ==
    src["cpu"].set /\ cpu.temperature = None /\ cpu.fan_speed = Some(3000)

\* C6: a temperature or fan speed read as 0 is stored as 0, and the text
\* rendered for it differs from the text rendered when it is absent.
C6_ZeroDistinctFromAbsent ==
    /\ (src["cpu"].set /\ ~TemperatureFails(src["cpu"].r.temp))
          => cpu.temperature = Some(src["cpu"].r.temp.entries[1])
    /\ (src["cpu"].set /\ ~FansFail(src["cpu"].r.fans))
          => cpu.fan_speed = Some(src["cpu"].r.fans.groups[1][1])
    /\ cpu.temperature = Some(0)
          => CPURender(cpu) # CPURender([cpu EXCEPT !.temperature = None])
    /\ cpu.fan_speed = Some(0)
          => CPURender(cpu) # CPURender([cpu EXCEPT !.fan_speed = None])

\* C7: update_cpu does not raise because of a sensor, and after it a
\* temperature whose read failed is absent and a fan speed whose read failed
\* (or that no fan group gave) is absent, each whatever the other read did
\* and whatever the widget held before.
C7_SensorFailureAbsent ==
    /\ err = None
    /\ src["cpu"].set =>
          /\ TemperatureFails(src["cpu"].r.temp) => cpu.temperature = None
          /\ FansFail(src["cpu"].r.fans) => cpu.fan_speed = None

\* C7's case: the widget held a temperature and a fan speed, and a call
\* whose fan read failed and whose temperature read succeeded cleared the
\* fan speed alone
C7_Witness ==
    /\ src["cpu"].set
    /\ held.cpu.temperature # None /\ held.cpu.fan_speed # None
    /\ FansFail(src["cpu"].r.fans) /\ ~TemperatureFails(src["cpu"].r.temp)
    /\ cpu.fan_speed = None /\ cpu.temperature # None

\* C8: update_processes does not raise when reads of processes raise
\* NoSuchProcess, AccessDenied or ZombieProcess, and stores the first
\* min(5, n) of the n readable processes in descending order of CPU percent,
\* equal percents in enumeration order; the list never exceeds 5 entries.
C8_TopFive ==
    /\ err = None
    /\ Len(procs) <= 5
    /\ src["procs"].set => IsTopFive(procs, src["procs"].r)

\* C8's case: six processes were enumerated, one of them unreadable, two of
\* the stored five have the same CPU percent, and all five are stored
C8_Witness ==
    /\ src["procs"].set
    /\ Len(src["procs"].r) = 6
    /\ Cardinality(Readable(src["procs"].r)) = 5
    /\ Len(procs) = 5
    /\ \E j, k \in 1..5 : j < k /\ procs[j][3] = procs[k][3]
    /\ procs[1][3] > procs[5][3]

\* C9: every widget holds either its class defaults or exactly the values
\* of one reading, the one its last completed update was given; no widget
\* mixes attributes of two readings.
C9_Wholesale ==
    /\ \A w \in {"cpu", "mem", "disk", "net"} :
          Panels[w] = IF src[w].set THEN SnapshotOf(w, src[w].r) ELSE DefaultsOf(w)
    /\ IF src["procs"].set THEN IsTopFive(procs, src["procs"].r) ELSE procs = <<>>

\* C9's case: idle after a failed call that wrote the CPU widget a second
\* time, the sensors now failing, and left the other widgets stale
C9_Witness ==
    /\ pc = "idle" /\ lastFailed
    /\ src["cpu"].set /\ src["cpu"].at = 2 /\ TemperatureFails(src["cpu"].r.temp)
    /\ src["mem"].set /\ src["mem"].at = 1

\* C10 as stated: the usage line shows the usage rounded to 0 decimals, and
\* the stored usage is the reading unrounded.
C10_UsageRoundedAtRender ==
    /\ CPURender(cpu)[1] = <<"CPU Usage", 10 * Format1(cpu.usage)>>
    /\ src["cpu"].set => cpu.usage = src["cpu"].r.usage.v

\* C10 amended: the usage line shows the stored usage as it is, unrounded
\* (12.3 as 12.3), and the stored usage is the reading unrounded.
C10_UsageShownAsStored ==
    /\ CPURender(cpu)[1] = <<"CPU Usage", cpu.usage>>
    /\ src["cpu"].set => cpu.usage = src["cpu"].r.usage.v

\* C10's case: the widget holds the fractional reading 12.3
C10_Witness ==
    src["cpu"].set /\ cpu.usage = 123

====
